---- MODULE Spec2Model ----
(***************************************************************************)
(* autogamejournal (src/src/main.rs): the foreground-window classifier and *)
(* the capture scheduler loop.                                             *)
(*                                                                         *)
(* Strings are sequences of Unicode code points (Rust `char`s), e.g.       *)
(* <<65, 98>> is "Ab".  Result<T> and Option<T> are records                *)
(* [ok |-> BOOLEAN, v |-> T].                                              *)
(***************************************************************************)
EXTENDS Integers, Sequences, FiniteSets, TLC

(***************************************************************************)
(* Bounds of the model.                                                    *)
(***************************************************************************)
\* Longest string fed to normalize_name in SpecNorm.
MaxLen == 3
\* Number of global input events the OS reports during a run.
MaxInputs == 2

\* The last-input ordinal (LASTINPUTINFO.dwTime) is a u32 that wraps at 2^32.
\* TLC's integers stop at 2^31 - 1, so the model's ordinal wraps at TimeWrap.
TimeWrap == 16

(***************************************************************************)
(* Result / Option values.                                                 *)
(***************************************************************************)
Ok(v) == [ok |-> TRUE, v |-> v]
Err == [ok |-> FALSE, v |-> <<>>]
Some(v) == [ok |-> TRUE, v |-> v]
None == [ok |-> FALSE, v |-> <<>>]

(***************************************************************************)
(* normalize_name (main.rs 51-58).                                         *)
(***************************************************************************)
\* The match arm 'a'..='z' | 'A'..='Z' | '0'..='9' | '.' | '_' | '-' | ' '.
KeepsChar(c) ==
    \/ c \in 97..122
    \/ c \in 65..90
    \/ c \in 48..57
    \/ c = 46
    \/ c = 95
    \/ c = 45
    \/ c = 32

\* A normalizer that drops the rejected characters instead of replacing them.
normalize_name_filter(name) == SelectSeq(name, KeepsChar)

\* A normalizer that also escapes the replacement character: '_' becomes "__".
RECURSIVE normalize_name_escape(_)
normalize_name_escape(name) ==
    IF name = <<>> THEN <<>>
    ELSE (IF name[1] = 95 THEN <<95, 95>>
          ELSE IF KeepsChar(name[1]) THEN <<name[1]>>
          ELSE <<95>>) \o normalize_name_escape(Tail(name))

\* name.chars().map(|c| match c { allowed => c, _ => '_' }).collect()
normalize_name(name) ==
    [i \in 1..Len(name) |-> IF KeepsChar(name[i]) THEN name[i] ELSE 95]

(***************************************************************************)
(* Rule table (main.rs 21-49, 90-95).                                      *)
(***************************************************************************)
\* char::to_lowercase on the code points the model uses (ASCII and Latin-1).
LowerChar(c) ==
    IF c \in 65..90 \/ (c \in 192..222 /\ c # 215) THEN c + 32 ELSE c

\* str::to_lowercase
to_lowercase(s) == [i \in 1..Len(s) |-> LowerChar(s[i])]

\* A RuleEntry value.
Rule(name, ignore, needs_fullscreen, use_window_name, override_name) ==
    [name |-> name, ignore |-> ignore, needs_fullscreen |-> needs_fullscreen,
     use_window_name |-> use_window_name, override_name |-> override_name]

\* impl Default for RuleEntry
RuleEntry_default == Rule(<<>>, FALSE, TRUE, FALSE, None)

\* The closure |e| e.name.to_lowercase() == name.to_lowercase()
rule_matches(e, name) == to_lowercase(e.name) = to_lowercase(name)

\* A scan that keeps the last matching rule instead of the first.
RECURSIVE find_rule_last_from(_, _, _)
find_rule_last_from(rules, name, i) ==
    IF i < 1 THEN None
    ELSE IF rule_matches(rules[i], name) THEN Some(rules[i])
    ELSE find_rule_last_from(rules, name, i - 1)

find_rule_last(rules, name) == find_rule_last_from(rules, name, Len(rules))

\* config.rules.iter().find(...): linear scan from the front.
RECURSIVE find_rule_from(_, _, _)
find_rule_from(rules, name, i) ==
    IF i > Len(rules) THEN None
    ELSE IF rule_matches(rules[i], name) THEN Some(rules[i])
    ELSE find_rule_from(rules, name, i + 1)

find_rule(rules, name) == find_rule_from(rules, name, 1)

\* .map(Clone::clone).unwrap_or_default()
associated_config(config, name) ==
    LET found == find_rule(config.rules, name)
    IN  IF found.ok THEN found.v ELSE RuleEntry_default

(***************************************************************************)
(* The OS as the classifier sees it: the process snapshot, the monitor,    *)
(* and the windows that can hold the foreground.                           *)
(***************************************************************************)
\* PROCESSENTRY32 records of the toolhelp snapshot: "Ab.exe", "g(.exe",
\* ".." (a name with no file stem).  Pid 4 is in no snapshot (process exited).
ProcessSnapshot ==
    { [th32ProcessID |-> 1, szExeFile |-> <<65, 98, 46, 101, 120, 101>>],
      [th32ProcessID |-> 2, szExeFile |-> <<103, 40, 46, 101, 120, 101>>],
      [th32ProcessID |-> 3, szExeFile |-> <<46, 46>>] }

\* Index of the last '.' of s, 0 if there is none.
LastDot(s) ==
    LET dots == {i \in 1..Len(s) : s[i] = 46}
    IN  IF dots = {} THEN 0 ELSE CHOOSE i \in dots : \A j \in dots : j <= i

\* Path::file_stem on a bare file name: None for "" and "..", the whole name
\* when it has no '.' or only a leading one, else the part before the last '.'.
file_stem(path) ==
    IF path = <<>> \/ path = <<46, 46>> THEN None
    ELSE IF LastDot(path) <= 1 THEN Some(path)
    ELSE Some(SubSeq(path, 1, LastDot(path) - 1))

\* get_process_name_from_pid (main.rs 60-75)
get_process_name_from_pid(pid) ==
    LET found == {p \in ProcessSnapshot : p.th32ProcessID = pid}
    IN  IF found = {} THEN Err
        ELSE LET process == CHOOSE p \in found : TRUE
                 stem == file_stem(process.szExeFile)
             IN  IF stem.ok THEN Ok(stem.v) ELSE Err

\* rcMonitor of the (single) monitor.
MonitorRect == [left |-> 0, top |-> 0, right |-> 4, bottom |-> 3]

\* How far each edge of a window may lie outside (-1) or inside (+1) the monitor.
Margins == {-1, 0, 1}

\* The window rectangle whose edges are inset from the monitor's by the margins.
InsetRect(l, t, r, b) ==
    [left |-> MonitorRect.left + l, top |-> MonitorRect.top + t,
     right |-> MonitorRect.right - r, bottom |-> MonitorRect.bottom - b]

Rects == {InsetRect(l, t, r, b) : l \in Margins, t \in Margins, r \in Margins, b \in Margins}

\* GetWindowText results: "a:", "AB", "g(", or an error.
TitleResults == {Ok(<<97, 58>>), Ok(<<65, 66>>), Err}

\* What the OS answers for one window handle: GetWindowThreadProcessId,
\* GetWindowText, GetWindowRect and GetMonitorInfo of its monitor.
Window(hwnd, pid, text, rect, monitor) ==
    [hwnd |-> hwnd, pid |-> pid, text |-> text, rect |-> rect, monitor |-> monitor]

\* GetForegroundWindow() = None
NoWindow == Window(0, 0, Err, Err, Err)

\* Windows covering the monitor exactly, one per owner and title.
BaseWindows ==
    {Window(16 + pid, pid, text, Ok(MonitorRect), Ok(MonitorRect)) :
        pid \in 0..4, text \in TitleResults}

\* Windows of process 1 ("Ab") at every rectangle, and with failing geometry calls.
GeometryWindows ==
    {Window(32, 1, Ok(<<97, 58>>), Ok(r), Ok(MonitorRect)) : r \in Rects}
    \cup {Window(33, 1, Ok(<<97, 58>>), Err, Ok(MonitorRect)),
          Window(34, 1, Ok(<<97, 58>>), Ok(MonitorRect), Err)}

Windows == BaseWindows \cup GeometryWindows

(***************************************************************************)
(* Window classifier (main.rs 77-124).                                     *)
(***************************************************************************)
\* A get_name that returns the raw title for windows without a process.
get_name_raw(window) ==
    IF window.pid = 0
    THEN (IF window.text.ok THEN Ok(window.text.v) ELSE Err)
    ELSE get_process_name_from_pid(window.pid)

\* get_name (main.rs 77-84)
get_name(window) ==
    IF window.pid = 0
    THEN (IF window.text.ok THEN Ok(normalize_name(window.text.v)) ELSE Err)
    ELSE get_process_name_from_pid(window.pid)

\* A containment test that forgets the right edge.
covers_monitor_no_right(rect, rcMonitor) ==
    /\ rect.left <= rcMonitor.left
    /\ rect.top <= rcMonitor.top
    /\ rect.bottom >= rcMonitor.bottom

\* The condition negated at main.rs 106-109.
covers_monitor(rect, rcMonitor) ==
    /\ rect.left <= rcMonitor.left
    /\ rect.right >= rcMonitor.right
    /\ rect.top <= rcMonitor.top
    /\ rect.bottom >= rcMonitor.bottom

\* Outcome of the needs_fullscreen block (main.rs 100-113): "pass", or the
\* error it bails or propagates with.
fullscreen_block(rule, window) ==
    IF ~rule.needs_fullscreen THEN "pass"
    ELSE IF ~window.rect.ok \/ ~window.monitor.ok THEN "OsError"
    ELSE IF ~covers_monitor(window.rect.v, window.monitor.v) THEN "NotFullscreen"
    ELSE "pass"

\* A naming that prefers the window title to override_name.
bucket_name_title_first(rule, window, name) ==
    IF rule.use_window_name
    THEN (IF window.text.ok THEN Ok(normalize_name(window.text.v)) ELSE Err)
    ELSE IF rule.override_name.ok THEN Ok(rule.override_name.v)
    ELSE Ok(name)

\* The final `let name = ...` (main.rs 115-121).
bucket_name(rule, window, name) ==
    IF rule.override_name.ok THEN Ok(rule.override_name.v)
    ELSE IF rule.use_window_name
    THEN (IF window.text.ok THEN Ok(normalize_name(window.text.v)) ELSE Err)
    ELSE Ok(name)

Failure(status) == [status |-> status, id |-> 0, name |-> <<>>]

\* A classifier that skips the `ignore` check.
get_valid_window_no_ignore(config, foreground) ==
    IF foreground.hwnd = 0 THEN Failure("NoForegroundWindow")
    ELSE LET name == get_name(foreground)
         IN  IF ~name.ok THEN Failure("IdentityResolutionFailed")
             ELSE LET rule == associated_config(config, name.v)
                      fs == fullscreen_block(rule, foreground)
                      bucket == bucket_name(rule, foreground, name.v)
                  IN  IF fs # "pass" THEN Failure(fs)
                      ELSE IF ~bucket.ok THEN Failure("OsError")
                      ELSE [status |-> "Ok", id |-> foreground.hwnd,
                            name |-> bucket.v]

\* get_valid_window (main.rs 86-124); `foreground` is what
\* HWND::GetForegroundWindow() answers.  Window handles fit 32 bits, so
\* `window.ptr() as u32` is the handle itself.
get_valid_window(config, foreground) ==
    IF foreground.hwnd = 0 THEN Failure("NoForegroundWindow")
    ELSE LET name == get_name(foreground)
         IN  IF ~name.ok THEN Failure("IdentityResolutionFailed")
             ELSE LET rule == associated_config(config, name.v)
                      fs == fullscreen_block(rule, foreground)
                      bucket == bucket_name(rule, foreground, name.v)
                  IN  IF rule.ignore THEN Failure("WindowIgnored")
                      ELSE IF fs # "pass" THEN Failure(fs)
                      ELSE IF ~bucket.ok THEN Failure("OsError")
                      ELSE [status |-> "Ok", id |-> foreground.hwnd,
                            name |-> bucket.v]

(***************************************************************************)
(* Configurations (main.rs 21-27), read once at startup.  Names: "ab",     *)
(* "AB", "Ab", "aB", "a_", "g(", "x/", "ov".                               *)
(***************************************************************************)
Config(rules) ==
    [target_folder |-> <<111, 117, 116>>, screenshot_delay |-> 1, rules |-> rules]

Configs ==
    { Config(<<>>),
      [Config(<<Rule(<<65, 66>>, TRUE, TRUE, FALSE, None)>>)
          EXCEPT !.screenshot_delay = 5],
      Config(<<Rule(<<97, 98>>, FALSE, FALSE, TRUE, None),
               Rule(<<65, 98>>, TRUE, TRUE, FALSE, None)>>),
      [Config(<<Rule(<<97, 66>>, FALSE, TRUE, TRUE, Some(<<120, 47>>))>>)
          EXCEPT !.screenshot_delay = 60],
      Config(<<Rule(<<97, 95>>, FALSE, FALSE, FALSE, None),
               Rule(<<103, 40>>, FALSE, FALSE, FALSE, None)>>),
      Config(<<Rule(<<65, 66>>, FALSE, FALSE, FALSE, Some(<<111, 118>>)),
               Rule(<<97, 98>>, FALSE, TRUE, TRUE, None)>>) }

(***************************************************************************)
(* State.                                                                  *)
(***************************************************************************)
VARIABLES
    config,      \* the Config moved into screenshot_thread
    foreground,  \* OS: the window GetForegroundWindow reports (NoWindow: none)
    osTime,      \* OS: dwTime of GetLastInputInfo, in 0..TimeWrap-1
    nInputs,     \* number of input events so far (bounded by MaxInputs)
    pc,          \* screenshot_thread: "unspawned" before thread::spawn, then
                 \* "sleep", "classify", "query", "capture"
    last_input,  \* screenshot_thread: `let mut last_input`
    target,      \* screenshot_thread: the (id, name) of this cycle
    lastBefore,  \* history: last_input when the cycle began
    classified,  \* history: outcome of get_valid_window this cycle, or "none"
    queried,     \* history: outcome of get_last_input_time this cycle
    time,        \* history: the `time` the query returned this cycle
    seen,        \* history: the OS last-input value at this cycle's query
    saved,       \* history: outcome of save_screenshot this cycle
    shotInput,   \* history: the OS last-input value of the last successful
                 \* capture since the foreground window last changed, or -1
    slept,       \* history: seconds slept since the last classification attempt
    mainPc,      \* main: "load", "spawn", "init", "loop", "aborted", "panicked", "exit"
    alive,       \* whether the process is running
    target_path, \* main: the canonical target folder kept for "Open"
    uiLast,      \* history: the last UI event handled ("none" before any)
    input,       \* SpecNorm: the string being built
    output,      \* SpecNorm: normalize_name(input) once computed
    normalized,  \* SpecNorm: whether output has been computed
    output2,     \* SpecNorm: normalize_name(output) once computed
    renormalized \* SpecNorm: whether output2 has been computed

schedVars ==
    <<config, foreground, osTime, nInputs, pc, last_input, target, lastBefore,
      classified, queried, time, seen, saved, shotInput, slept>>
mainVars == <<mainPc, alive, target_path, uiLast>>
normVars == <<input, output, normalized, output2, renormalized>>
vars == <<schedVars, mainVars, normVars>>

\* Values GetLastInputInfo may report when the agent starts.
TimeStarts == {0, TimeWrap - 1}

NoTarget == [id |-> 0, name |-> <<>>]

\* target_folder.canonicalize().unwrap().to_str().unwrap().to_string()
\* (main.rs 221-227): the absolute form of the folder, here under the root '\'.
canonicalize(folder) == <<92>> \o folder

Init ==
    /\ config \in Configs
    /\ foreground \in Windows \cup {NoWindow}
    /\ osTime \in TimeStarts
    /\ nInputs = 0
    /\ pc = "sleep"
    /\ last_input = 0
    /\ target = NoTarget
    /\ lastBefore = 0
    /\ classified = "none"
    /\ queried = "none"
    /\ time = 0
    /\ seen = 0
    /\ saved = "none"
    /\ shotInput = -1
    /\ slept = 0
    /\ mainPc = "loop"
    /\ alive = TRUE
    /\ target_path = canonicalize(config.target_folder)
    /\ uiLast = "none"
    /\ input = <<>>
    /\ output = <<>>
    /\ normalized = FALSE
    /\ output2 = <<>>
    /\ renormalized = FALSE

(***************************************************************************)
(* The environment.  The scheduler reads the foreground window only in     *)
(* get_valid_window, so focus changes are taken just before that call.     *)
(***************************************************************************)
FocusChange(w) ==
    /\ pc = "classify"
    /\ w # foreground
    /\ foreground' = w
    /\ shotInput' = -1
    /\ UNCHANGED <<config, osTime, nInputs, pc, last_input, target, lastBefore,
                   classified, queried, time, seen, saved, slept>>
    /\ UNCHANGED normVars
    /\ UNCHANGED mainVars

\* A keyboard or mouse event: the tick count of the last input advances and wraps.
UserInput ==
    /\ nInputs < MaxInputs
    /\ nInputs' = nInputs + 1
    /\ osTime' = (osTime + 1) % TimeWrap
    /\ UNCHANGED <<config, foreground, pc, last_input, target, lastBefore,
                   classified, queried, time, seen, saved, shotInput, slept>>
    /\ UNCHANGED normVars
    /\ UNCHANGED mainVars

(***************************************************************************)
(* screenshot_thread (main.rs 185-217), one action per blocking call.      *)
(***************************************************************************)
\* A loop that backs off: after a cycle that did not capture it sleeps twice
\* the configured interval.
Sleep_backoff ==
    /\ alive
    /\ pc = "sleep"
    /\ pc' = "classify"
    /\ slept' = slept + (IF classified # "none" /\ saved # "Ok"
                         THEN 2 * config.screenshot_delay
                         ELSE config.screenshot_delay)
    /\ lastBefore' = last_input
    /\ classified' = "none"
    /\ queried' = "none"
    /\ saved' = "none"
    /\ time' = 0
    /\ seen' = 0
    /\ target' = NoTarget
    /\ UNCHANGED <<config, foreground, osTime, nInputs, last_input, shotInput>>
    /\ UNCHANGED normVars
    /\ UNCHANGED mainVars

\* std::thread::sleep(...) at the top of the loop (main.rs 189).
Sleep ==
    /\ alive
    /\ pc = "sleep"
    /\ pc' = "classify"
    /\ slept' = slept + config.screenshot_delay
    /\ lastBefore' = last_input
    /\ classified' = "none"
    /\ queried' = "none"
    /\ saved' = "none"
    /\ time' = 0
    /\ seen' = 0
    /\ target' = NoTarget
    /\ UNCHANGED <<config, foreground, osTime, nInputs, last_input, shotInput>>
    /\ UNCHANGED normVars
    /\ UNCHANGED mainVars

\* A loop that gives up on the first classification failure (the error is
\* propagated out of the loop instead of `continue`).
Classify_fatal ==
    /\ alive
    /\ pc = "classify"
    /\ slept' = 0
    /\ \E r \in {get_valid_window(config, foreground)} :
           /\ classified' = r.status
           /\ IF r.status = "Ok"
              THEN /\ target' = [id |-> r.id, name |-> r.name]
                   /\ pc' = "query"
              ELSE /\ target' = target
                   /\ pc' = "stopped"
    /\ UNCHANGED <<config, foreground, osTime, nInputs, last_input, lastBefore,
                   queried, time, seen, saved, shotInput>>
    /\ UNCHANGED normVars
    /\ UNCHANGED mainVars

\* match get_valid_window(&config) (main.rs 190-196).
Classify ==
    /\ alive
    /\ pc = "classify"
    /\ slept' = 0
    /\ \E r \in {get_valid_window(config, foreground)} :
           /\ classified' = r.status
           /\ IF r.status = "Ok"
              THEN /\ target' = [id |-> r.id, name |-> r.name]
                   /\ pc' = "query"
              ELSE /\ target' = target
                   /\ pc' = "sleep"
    /\ UNCHANGED <<config, foreground, osTime, nInputs, last_input, lastBefore,
                   queried, time, seen, saved, shotInput>>
    /\ UNCHANGED normVars
    /\ UNCHANGED mainVars

\* A gate that lets an unchanged timestamp through.
gate_rejects_strict(t, last) == t < last

\* A gate that only rejects an unchanged timestamp.
gate_rejects_equal(t, last) == t = last

\* `if time <= last_input` (main.rs 200).
gate_rejects(t, last) == t <= last

\* A query that records the queried time before the gate is consulted.
QueryInput_records_first(res) ==
    /\ alive
    /\ pc = "query"
    /\ seen' = osTime
    /\ IF res.ok
       THEN /\ queried' = "Ok"
            /\ time' = res.v
            /\ last_input' = res.v
            /\ pc' = IF gate_rejects(res.v, last_input) THEN "sleep" ELSE "capture"
       ELSE /\ queried' = "Err"
            /\ time' = time
            /\ pc' = "capture"
            /\ last_input' = last_input
    /\ UNCHANGED <<config, foreground, osTime, nInputs, target, lastBefore,
                   classified, saved, shotInput, slept>>
    /\ UNCHANGED normVars
    /\ UNCHANGED mainVars

\* match get_last_input_time() (main.rs 198-209); `res` is what
\* get_last_input_time (main.rs 173-183) returns.
QueryInput(res) ==
    /\ alive
    /\ pc = "query"
    /\ seen' = osTime
    /\ IF res.ok
       THEN /\ queried' = "Ok"
            /\ time' = res.v
            /\ IF gate_rejects(res.v, last_input)
               THEN /\ pc' = "sleep"
                    /\ last_input' = last_input
               ELSE /\ pc' = "capture"
                    /\ last_input' = res.v
       ELSE /\ queried' = "Err"
            /\ time' = time
            /\ pc' = "capture"
            /\ last_input' = last_input
    /\ UNCHANGED <<config, foreground, osTime, nInputs, target, lastBefore,
                   classified, saved, shotInput, slept>>
    /\ UNCHANGED normVars
    /\ UNCHANGED mainVars

\* if let Err(e) = save_screenshot(...) (main.rs 211-215); `ok` is whether
\* save_screenshot (main.rs 149-171) succeeded.
SaveScreenshot(ok) ==
    /\ alive
    /\ pc = "capture"
    /\ pc' = "sleep"
    /\ saved' = IF ok THEN "Ok" ELSE "Err"
    /\ shotInput' = IF ok THEN seen ELSE shotInput
    /\ UNCHANGED <<config, foreground, osTime, nInputs, last_input, target,
                   lastBefore, classified, queried, time, seen, slept>>
    /\ UNCHANGED normVars
    /\ UNCHANGED mainVars

Next ==
    \/ \E w \in Windows \cup {NoWindow} : FocusChange(w)
    \/ UserInput
    \/ Sleep
    \/ Classify
    \/ QueryInput(Ok(osTime))
    \/ QueryInput(Err)
    \/ SaveScreenshot(TRUE)
    \/ SaveScreenshot(FALSE)

Spec == Init /\ [][Next]_vars

(***************************************************************************)
(* SpecLive: the scheduler under fair scheduling, on one window of each    *)
(* classification outcome.  The thread is scheduled again and again and    *)
(* every call it makes (sleep, OS queries, save_screenshot) returns.       *)
(***************************************************************************)
\* One step of screenshot_thread.
SchedulerStep ==
    \/ Sleep
    \/ Classify
    \/ QueryInput(Ok(osTime))
    \/ QueryInput(Err)
    \/ SaveScreenshot(TRUE)
    \/ SaveScreenshot(FALSE)

\* No window; a fullscreen window of "Ab"; one inset on the right edge; one
\* whose process has exited; one whose monitor cannot be queried.
LiveWindows ==
    { NoWindow,
      Window(17, 1, Ok(<<97, 58>>), Ok(MonitorRect), Ok(MonitorRect)),
      Window(32, 1, Ok(<<97, 58>>), Ok(InsetRect(0, 0, 1, 0)), Ok(MonitorRect)),
      Window(20, 4, Ok(<<97, 58>>), Ok(MonitorRect), Ok(MonitorRect)),
      Window(34, 1, Ok(<<97, 58>>), Ok(MonitorRect), Err) }

InitLive ==
    /\ Init
    /\ foreground \in LiveWindows

NextLive ==
    \/ \E w \in LiveWindows : FocusChange(w)
    \/ UserInput
    \/ SchedulerStep

SpecLive == InitLive /\ [][NextLive]_vars /\ WF_vars(SchedulerStep)

(***************************************************************************)
(* SpecWrap: the loop under continued activity.  A capturable window stays *)
(* in the foreground, every OS call and every capture succeeds, and the    *)
(* user produces input during every sleep, so the tick count of the last   *)
(* input (a u32, here modulo TimeWrap) advances every cycle and wraps.     *)
(***************************************************************************)
\* A fullscreen window with a resolvable process and no rule against it.
CapturableWindow == Window(17, 1, Ok(<<97, 58>>), Ok(MonitorRect), Ok(MonitorRect))

\* std::thread::sleep (main.rs 189) during which the user produces input:
\* dwTime of GetLastInputInfo (main.rs 173-183) advances by d ticks, wrapping.
ActiveSleep(d) ==
    /\ alive
    /\ pc = "sleep"
    /\ pc' = "classify"
    /\ osTime' = (osTime + d) % TimeWrap
    /\ slept' = slept + config.screenshot_delay
    /\ lastBefore' = last_input
    /\ classified' = "none"
    /\ queried' = "none"
    /\ saved' = "none"
    /\ time' = 0
    /\ seen' = 0
    /\ target' = NoTarget
    /\ UNCHANGED <<config, foreground, nInputs, last_input, shotInput>>
    /\ UNCHANGED normVars
    /\ UNCHANGED mainVars

InitWrap ==
    /\ Init
    /\ config = Config(<<>>)
    /\ foreground = CapturableWindow

WrapStep ==
    \/ \E d \in 1..MaxInputs : ActiveSleep(d)
    \/ Classify
    \/ QueryInput(Ok(osTime))
    \/ SaveScreenshot(TRUE)

SpecWrap == InitWrap /\ [][WrapStep]_vars /\ WF_vars(WrapStep)

(***************************************************************************)
(* main (main.rs 219-271): start-up, then the tray's event loop, run next  *)
(* to the scheduler thread.  SpecMain is the whole process from its start. *)
(***************************************************************************)
\* The value of `config` before config.toml has been read.
NoConfig == [target_folder |-> <<>>, screenshot_delay |-> 0, rules |-> <<>>]

\* A start-up that falls back to an empty configuration when loading fails.
LoadConfigFails_default ==
    /\ alive
    /\ mainPc = "load"
    /\ mainPc' = "spawn"
    /\ UNCHANGED <<alive, target_path, uiLast>>
    /\ UNCHANGED schedVars
    /\ UNCHANGED normVars

\* One of the unwrap()s of main.rs 220-227 panics: config.toml unreadable or
\* malformed, or target_folder cannot be canonicalized or is not UTF-8.
LoadConfigFails ==
    /\ alive
    /\ mainPc = "load"
    /\ mainPc' = "aborted"
    /\ alive' = FALSE
    /\ UNCHANGED <<target_path, uiLast>>
    /\ UNCHANGED schedVars
    /\ UNCHANGED normVars

\* main.rs 220-227 succeed with the configuration c.
LoadConfig(c) ==
    /\ alive
    /\ mainPc = "load"
    /\ config' = c
    /\ target_path' = canonicalize(c.target_folder)
    /\ mainPc' = "spawn"
    /\ UNCHANGED <<alive, uiLast>>
    /\ UNCHANGED <<foreground, osTime, nInputs, pc, last_input, target, lastBefore,
                   classified, queried, time, seen, saved, shotInput, slept>>
    /\ UNCHANGED normVars

\* std::thread::spawn(|| screenshot_thread(config)) (main.rs 229): the thread
\* starts with last_input = 0 at the top of its loop.
Spawn ==
    /\ alive
    /\ mainPc = "spawn"
    /\ pc = "unspawned"
    /\ pc' = "sleep"
    /\ last_input' = 0
    /\ mainPc' = "init"
    /\ UNCHANGED <<alive, target_path, uiLast>>
    /\ UNCHANGED <<config, foreground, osTime, nInputs, target, lastBefore,
                   classified, queried, time, seen, saved, shotInput, slept>>
    /\ UNCHANGED normVars

\* Event::NewEvents(StartCause::Init) (main.rs 239-255): the icon is read and
\* the tray icon built; each step is unwrap()ed, so a failure panics main.
TrayInit(ok) ==
    /\ alive
    /\ mainPc = "init"
    /\ mainPc' = IF ok THEN "loop" ELSE "panicked"
    /\ alive' = ok
    /\ UNCHANGED <<target_path, uiLast>>
    /\ UNCHANGED schedVars
    /\ UNCHANGED normVars

\* let _ = TrayIconEvent::receiver().try_recv() (main.rs 257): dropped.
TrayEvent ==
    /\ alive
    /\ mainPc = "loop"
    /\ uiLast' = "tray"
    /\ UNCHANGED <<mainPc, alive, target_path>>
    /\ UNCHANGED schedVars
    /\ UNCHANGED normVars

\* A Quit handler whose ControlFlow::Exit is lost: the loop keeps running.
MenuQuit_lost ==
    /\ alive
    /\ mainPc = "loop"
    /\ uiLast' = "quit"
    /\ UNCHANGED <<mainPc, alive, target_path>>
    /\ UNCHANGED schedVars
    /\ UNCHANGED normVars

\* The Quit menu event (main.rs 259-261): ControlFlow::Exit ends
\* event_loop.run, which exits the process with every thread in it.
MenuQuit ==
    /\ alive
    /\ mainPc = "loop"
    /\ uiLast' = "quit"
    /\ mainPc' = "exit"
    /\ alive' = FALSE
    /\ UNCHANGED target_path
    /\ UNCHANGED schedVars
    /\ UNCHANGED normVars

\* An Open handler that writes the canonical path back into the configuration.
MenuOpen_writes_config(ok) ==
    /\ alive
    /\ mainPc = "loop"
    /\ uiLast' = "open"
    /\ config' = [config EXCEPT !.target_folder = target_path]
    /\ UNCHANGED <<mainPc, alive, target_path>>
    /\ UNCHANGED <<foreground, osTime, nInputs, pc, last_input, target, lastBefore,
                   classified, queried, time, seen, saved, shotInput, slept>>
    /\ UNCHANGED normVars

\* The Open menu event (main.rs 262-269): ShellExecute("explore", target_path);
\* `ok` is whether it succeeded, a failure is only printed.
MenuOpen(ok) ==
    /\ alive
    /\ mainPc = "loop"
    /\ uiLast' = "open"
    /\ UNCHANGED <<mainPc, alive, target_path>>
    /\ UNCHANGED schedVars
    /\ UNCHANGED normVars

\* The handlers of the UI-event thread that leave the process running.
UiEvent ==
    \/ TrayEvent
    \/ MenuOpen(TRUE)
    \/ MenuOpen(FALSE)

InitMain ==
    /\ config = NoConfig
    /\ foreground \in LiveWindows
    /\ osTime \in TimeStarts
    /\ nInputs = 0
    /\ pc = "unspawned"
    /\ last_input = 0
    /\ target = NoTarget
    /\ lastBefore = 0
    /\ classified = "none"
    /\ queried = "none"
    /\ time = 0
    /\ seen = 0
    /\ saved = "none"
    /\ shotInput = -1
    /\ slept = 0
    /\ mainPc = "load"
    /\ alive = TRUE
    /\ target_path = <<>>
    /\ uiLast = "none"
    /\ input = <<>>
    /\ output = <<>>
    /\ normalized = FALSE
    /\ output2 = <<>>
    /\ renormalized = FALSE

NextMain ==
    \/ LoadConfigFails
    \/ \E c \in Configs : LoadConfig(c)
    \/ Spawn
    \/ TrayInit(TRUE)
    \/ TrayInit(FALSE)
    \/ UiEvent
    \/ MenuQuit
    \/ \E w \in LiveWindows : FocusChange(w)
    \/ UserInput
    \/ SchedulerStep

SpecMain == InitMain /\ [][NextMain]_vars

(***************************************************************************)
(* SpecNorm: normalize_name applied to every string of at most MaxLen      *)
(* characters over Alphabet.  The scheduler does not run.                  *)
(***************************************************************************)
\* ' ', '-', '.', '/', '0', ':', 'A', 'Z', '[', '_', 'a', 'z', '{', U+00E9:
\* the ends of each accepted range, their neighbours, and a non-ASCII letter.
Alphabet == {32, 45, 46, 47, 48, 58, 65, 90, 91, 95, 97, 122, 123, 233}

InitNorm ==
    /\ config = Config(<<>>)
    /\ foreground = NoWindow
    /\ osTime = 0
    /\ nInputs = 0
    /\ pc = "sleep"
    /\ last_input = 0
    /\ target = NoTarget
    /\ lastBefore = 0
    /\ classified = "none"
    /\ queried = "none"
    /\ time = 0
    /\ seen = 0
    /\ saved = "none"
    /\ shotInput = -1
    /\ slept = 0
    /\ mainPc = "loop"
    /\ alive = TRUE
    /\ target_path = canonicalize(config.target_folder)
    /\ uiLast = "none"
    /\ input = <<>>
    /\ output = <<>>
    /\ normalized = FALSE
    /\ output2 = <<>>
    /\ renormalized = FALSE

\* Extend the argument by one character.
TypeChar(c) ==
    /\ ~normalized
    /\ Len(input) < MaxLen
    /\ input' = Append(input, c)
    /\ UNCHANGED <<output, normalized, output2, renormalized>>
    /\ UNCHANGED schedVars
    /\ UNCHANGED mainVars

\* output = normalize_name(&input)
Normalize ==
    /\ ~normalized
    /\ output' = normalize_name(input)
    /\ normalized' = TRUE
    /\ UNCHANGED <<input, output2, renormalized>>
    /\ UNCHANGED schedVars
    /\ UNCHANGED mainVars

\* output2 = normalize_name(&output): the normalizer applied to its own result.
Renormalize ==
    /\ normalized
    /\ ~renormalized
    /\ output2' = normalize_name(output)
    /\ renormalized' = TRUE
    /\ UNCHANGED <<input, output, normalized>>
    /\ UNCHANGED schedVars
    /\ UNCHANGED mainVars

\* Start over with an empty argument.
Clear ==
    /\ normalized
    /\ input' = <<>>
    /\ output' = <<>>
    /\ normalized' = FALSE
    /\ output2' = <<>>
    /\ renormalized' = FALSE
    /\ UNCHANGED schedVars
    /\ UNCHANGED mainVars

NextNorm ==
    \/ \E c \in Alphabet : TypeChar(c)
    \/ Normalize
    \/ Renormalize
    \/ Clear

SpecNorm == InitNorm /\ [][NextNorm]_vars

(***************************************************************************)
(* Vocabulary of the properties.                                           *)
(***************************************************************************)
\* The Frame Capture Service was invoked in the current cycle.
CaptureInvoked == pc = "capture" \/ saved # "none"

\* The current cycle has ended (the loop is back at its sleep).
CycleOver == pc = "sleep" /\ classified # "none"

\* The allowed set: ASCII letters, digits, '.', '_', '-', space.
AllowedSet == (65..90) \cup (97..122) \cup (48..57) \cup {46, 95, 45, 32}

OnlyAllowed(s) == \A i \in 1..Len(s) : s[i] \in AllowedSet

\* Equality of strings ignoring letter case.
SameLetter(a, b) ==
    \/ a = b
    \/ \E u \in (65..90) \cup (192..214) \cup (216..222) :
          {a, b} = {u, u + 32}

EqualIgnoringCase(a, b) ==
    /\ Len(a) = Len(b)
    /\ \A i \in 1..Len(a) : SameLetter(a[i], b[i])

\* The effective rule for an identity: the first rule, in configuration
\* order, whose name equals it ignoring case; else the all-defaults rule.
MatchingRules(id) ==
    {i \in 1..Len(config.rules) : EqualIgnoringCase(config.rules[i].name, id)}

EffectiveRule(id) ==
    IF MatchingRules(id) = {}
    THEN [name |-> <<>>, ignore |-> FALSE, needs_fullscreen |-> TRUE,
          use_window_name |-> FALSE, override_name |-> None]
    ELSE config.rules[CHOOSE i \in MatchingRules(id) :
                          \A j \in MatchingRules(id) : i <= j]

\* The identity of the window classified in this cycle was resolved.
IdentityResolved ==
    /\ classified \notin {"none", "NoForegroundWindow", "IdentityResolutionFailed"}

\* The resolved identity of the window classified in this cycle.
Identity == get_name(foreground).v

\* The effective rule of the window classified in this cycle.
CycleRule == EffectiveRule(Identity)

\* Some edge of the window lies inside the monitor by a positive margin.
HasInset(rect, mon) ==
    \/ rect.left - mon.left > 0
    \/ mon.right - rect.right > 0
    \/ rect.top - mon.top > 0
    \/ mon.bottom - rect.bottom > 0

\* The filesystem-safe form of a string, as the Name Normalizer is specified.
Normalized(s) == [i \in 1..Len(s) |-> IF s[i] \in AllowedSet THEN s[i] ELSE 95]

(***************************************************************************)
(* Properties.                                                             *)
(***************************************************************************)
\* C1: in a cycle whose capture (save_screenshot) fails, the recorded
\* last-input timestamp after the cycle equals its value before the cycle.
\* The code commits the timestamp before it calls save_screenshot.
C1_FailedCaptureKeepsTimestamp ==
    saved = "Err" => last_input = lastBefore

\* C2: in a cycle where get_last_input_time fails, the gate rejects the
\* cycle: the Frame Capture Service is not invoked.  The code's Err arm only
\* logs and falls through to save_screenshot.
C2_QueryFailureSkipsCapture ==
    queried = "Err" => ~CaptureInvoked

\* C3: when classification succeeded and the query returned `current`, the
\* capture is invoked if and only if current > last_recorded, where current
\* is the OS value and last_recorded the timestamp held when the cycle began.
C3_GateAcceptsIffNewer ==
    queried = "Ok" =>
        /\ classified = "Ok"
        /\ time = seen
        /\ CaptureInvoked <=> time > lastBefore

\* C3 witness: a cycle whose query returned the value recorded by an earlier
\* cycle, and which was rejected.
C3_Witness ==
    /\ queried = "Ok"
    /\ lastBefore > 0
    /\ time = lastBefore
    /\ CycleOver
    /\ saved = "none"

\* C4: once a cycle has captured successfully, no following cycle on the
\* same foreground window with the same OS last-input value invokes the
\* capture.  Fails through the fall-through of C2: a cycle whose query fails
\* captures whatever the last-input value is.
C4_NoRepeatCaptureWithoutInput ==
    pc = "capture" => shotInput # seen

\* C5: a window whose effective rule has `ignore` set is never captured: in
\* every cycle classification fails as ignored, before the fullscreen test
\* and the activity gate, and the capture is not invoked.
C5_IgnoredNeverCaptured ==
    (IdentityResolved /\ CycleRule.ignore) =>
        /\ classified = "WindowIgnored"
        /\ queried = "none"
        /\ ~CaptureInvoked

\* C5 witness: a cycle that ended on a window which is not fullscreen, whose
\* identity differs in case from the name of its ignoring rule.
C5_Witness ==
    /\ CycleOver
    /\ classified = "WindowIgnored"
    /\ CycleRule.name # Identity
    /\ foreground.rect.ok
    /\ foreground.monitor.ok
    /\ HasInset(foreground.rect.v, foreground.monitor.v)
    /\ lastBefore > 0

\* C6: rule lookup returns the first rule, in configuration order, whose
\* name equals the identity ignoring case, and the all-defaults rule when
\* none matches; an unmatched window is never ignored and is classified
\* only when it covers its monitor.
C6_RuleLookup ==
    IdentityResolved =>
        /\ associated_config(config, Identity) = CycleRule
        /\ MatchingRules(Identity) = {} =>
              /\ classified # "WindowIgnored"
              /\ classified = "Ok" =>
                    /\ foreground.rect.ok
                    /\ foreground.monitor.ok
                    /\ ~HasInset(foreground.rect.v, foreground.monitor.v)

\* C6 witness: a classification where two rules match the identity and the
\* first of them differs from it in case.
C6_Witness ==
    /\ IdentityResolved
    /\ Cardinality(MatchingRules(Identity)) = 2
    /\ config.rules[1].name # Identity
    /\ config.rules[1] # config.rules[2]
    /\ classified = "Ok"

\* C7: with `needs_fullscreen` set, classification is rejected as not
\* fullscreen exactly when some edge of the window is inset from the
\* monitor by a positive margin, and such a window is not captured; a window
\* equal to or larger than its monitor on every edge passes the test; with
\* `needs_fullscreen` unset the test is not applied.
C7_FullscreenTest ==
    (IdentityResolved /\ ~CycleRule.ignore) =>
        IF CycleRule.needs_fullscreen
        THEN (foreground.rect.ok /\ foreground.monitor.ok) =>
                /\ classified = "NotFullscreen"
                      <=> HasInset(foreground.rect.v, foreground.monitor.v)
                /\ HasInset(foreground.rect.v, foreground.monitor.v)
                      => ~CaptureInvoked
        ELSE /\ classified # "NotFullscreen"
             /\ (CycleRule.override_name.ok \/ ~CycleRule.use_window_name
                    \/ foreground.text.ok) => classified = "Ok"

\* C7 witness: a cycle rejected as not fullscreen on a window that matches
\* its monitor on three edges and is inset on the right edge only.
C7_Witness ==
    /\ CycleOver
    /\ classified = "NotFullscreen"
    /\ CycleRule.needs_fullscreen
    /\ foreground.rect.v.left = foreground.monitor.v.left
    /\ foreground.rect.v.top = foreground.monitor.v.top
    /\ foreground.rect.v.bottom = foreground.monitor.v.bottom
    /\ foreground.rect.v.right < foreground.monitor.v.right

\* C8: the bucket name of a successful classification is the effective
\* rule's override_name if present, else the normalized window title if
\* use_window_name is set, else the resolved identity.
C8_BucketNamePrecedence ==
    classified = "Ok" =>
        target.name =
            IF CycleRule.override_name.ok THEN CycleRule.override_name.v
            ELSE IF CycleRule.use_window_name THEN Normalized(foreground.text.v)
            ELSE Identity

\* C8 witness: a successful classification under a rule with both an
\* override_name and use_window_name, where override, title and identity differ.
C8_Witness ==
    /\ classified = "Ok"
    /\ CycleRule.override_name.ok
    /\ CycleRule.use_window_name
    /\ foreground.text.ok
    /\ target.name = CycleRule.override_name.v
    /\ target.name # Normalized(foreground.text.v)
    /\ target.name # Identity
    /\ Identity # Normalized(foreground.text.v)

\* C9 as claimed: every bucket name of a successful classification consists
\* only of allowed characters, whichever branch produced it.  Fails for a
\* process executable name and for an override_name, which are not normalized.
C9_EveryBucketNameSafe ==
    classified = "Ok" => OnlyAllowed(target.name)

\* C9 amended: a bucket name derived from a window title (the fallback for
\* process ID zero, or use_window_name), with no override_name in effect,
\* consists only of allowed characters.
C9_TitleBucketNameSafe ==
    (/\ classified = "Ok"
     /\ ~CycleRule.override_name.ok
     /\ (CycleRule.use_window_name \/ foreground.pid = 0)) =>
        OnlyAllowed(target.name)

\* C9 witness: a window of process ID zero whose title holds a character
\* outside the allowed set was classified, and the capture was invoked.
C9_Witness ==
    /\ classified = "Ok"
    /\ foreground.pid = 0
    /\ ~CycleRule.override_name.ok
    /\ ~CycleRule.use_window_name
    /\ ~OnlyAllowed(foreground.text.v)
    /\ Len(target.name) = Len(foreground.text.v)
    /\ pc = "capture"

\* C10: normalize_name returns a string of the same length in which each
\* position holds the input character if it is allowed and '_' otherwise;
\* it is defined on every input and its output has only allowed characters.
C10_NormalizeCharwise ==
    /\ ~normalized => ENABLED Normalize
    /\ normalized =>
          /\ Len(output) = Len(input)
          /\ \A i \in 1..Len(input) :
                output[i] = IF input[i] \in AllowedSet THEN input[i] ELSE 95
          /\ OnlyAllowed(output)

\* C10 witness: a normalized string with allowed characters around one that
\* is not allowed.
C10_Witness ==
    /\ normalized
    /\ Len(input) = 3
    /\ input[1] \in AllowedSet
    /\ input[2] \notin AllowedSet
    /\ input[3] \in AllowedSet
    /\ output = <<input[1], 95, input[3]>>

\* C11: normalize_name is idempotent: normalizing the result of
\* normalize_name(s) gives that result again.
C11_NormalizeIdempotent ==
    renormalized => output2 = output

\* C11 witness: the second pass ran on the result of an input that the first
\* pass changed, and which holds the replacement character itself.
C11_Witness ==
    /\ renormalized
    /\ output # input
    /\ \E i \in 1..Len(input) : input[i] = 95
    /\ \E i \in 1..Len(input) : input[i] \notin AllowedSet

\* A step of the cycle failed: classification, the query, the gate or the capture.
CycleFailed ==
    \/ classified \notin {"none", "Ok"}
    \/ queried = "Err"
    \/ (queried = "Ok" /\ time <= lastBefore)
    \/ saved = "Err"

\* C12: no failure within a cycle terminates the scheduler loop: the thread
\* always has a next step, a failed classification, a rejected gate and a
\* finished capture lead back to the sleep at the top of the loop, and under
\* fair scheduling every failure is followed by the start of a new cycle.
C12_FailuresNeverEndLoop ==
    /\ [](ENABLED SchedulerStep)
    /\ []((classified \notin {"none", "Ok"} \/ saved # "none"
              \/ (queried = "Ok" /\ time <= lastBefore)) => pc = "sleep")
    /\ [](queried = "Err" => pc \in {"capture", "sleep"})
    /\ (CycleFailed ~> (pc = "classify" /\ classified = "none"))

\* C12 witness: a cycle whose capture failed after its query had failed.
C12_Witness ==
    /\ CycleOver
    /\ queried = "Err"
    /\ saved = "Err"
    /\ foreground \in LiveWindows

\* C13 as stated: a configuration loading failure aborts start-up before any
\* cycle or capture, and it is the only failure that ends the process: a
\* process that ended without Quit ended in the aborted start-up.
C13_OnlyConfigFailureFatal ==
    /\ (mainPc = "aborted" => (~alive /\ pc = "unspawned" /\ saved = "none"))
    /\ ((~alive /\ uiLast # "quit") => mainPc = "aborted")

\* C13: a configuration loading failure ends the process before the scheduler
\* thread is spawned, so the scheduler only ever runs with a loaded
\* configuration and a resolved target path and no cycle or capture follows a
\* failed load; no step of a polling cycle ends the process; the process ends
\* only by the aborted load, by a panic while the tray is set up (after the
\* scheduler was spawned) or by Quit.
C13_ConfigFailureAborts ==
    /\ [][LoadConfigFails => (~alive' /\ pc' = "unspawned")]_vars
    /\ [](mainPc = "aborted" =>
              (~alive /\ pc = "unspawned" /\ classified = "none" /\ saved = "none"))
    /\ [](pc # "unspawned" =>
              (config \in Configs /\ target_path = canonicalize(config.target_folder)))
    /\ [][SchedulerStep => alive']_vars
    /\ [](~alive => mainPc \in {"aborted", "panicked", "exit"})
    /\ [](mainPc = "panicked" => pc # "unspawned")

\* C13 witness: start-up aborted by a failed load, the scheduler never spawned.
C13_Witness ==
    /\ mainPc = "aborted"
    /\ ~alive
    /\ pc = "unspawned"
    /\ config = NoConfig

\* C14: the handlers of Open and of tray events change nothing the scheduler
\* reads (configuration, Activity State, its position, the OS state it
\* queries) and do not end the process; the configuration never changes once
\* the scheduler is spawned; the scheduler changes nothing the UI thread reads.
C14_NoSharedMutableState ==
    /\ [][UiEvent => (UNCHANGED schedVars /\ alive' = alive)]_vars
    /\ [][pc # "unspawned" => config' = config]_vars
    /\ [][SchedulerStep => UNCHANGED mainVars]_vars

\* C14 witness: Open was handled while a cycle that has already moved the
\* Activity State stands before its capture.
C14_Witness ==
    /\ uiLast = "open"
    /\ pc = "capture"
    /\ last_input # lastBefore
    /\ alive

\* C15: between two consecutive classification attempts there is exactly one
\* sleep of the configured interval, whatever the previous cycle's outcome:
\* a classification attempt is only ever reached from the sleep at the top
\* of the loop, with exactly `screenshot_delay` seconds slept since the
\* previous attempt, and a finished cycle can only go on by sleeping.
C15_OneSleepPerCycle ==
    /\ [](pc = "classify" => slept = config.screenshot_delay)
    /\ [](pc # "classify" => slept = 0)
    /\ [](config.screenshot_delay > 0)
    /\ [][(pc' = "classify" /\ pc # "classify") =>
              (pc = "sleep" /\ slept' = config.screenshot_delay)]_vars
    /\ [][pc = "sleep" => pc' \in {"sleep", "classify"}]_vars

\* C15 witness: the sleep of a 5-second interval has just ended after an
\* earlier cycle that passed the gate and did not capture successfully.
C15_Witness ==
    /\ pc = "classify"
    /\ config.screenshot_delay = 5
    /\ slept = 5
    /\ last_input > 0
    /\ shotInput = -1

\* C16: a cycle that ends without invoking the Frame Capture Service leaves
\* the recorded last-input timestamp at its value before the cycle, and a
\* cycle whose classification failed did not query the last-input time.
C16_NoCaptureNoUpdate ==
    /\ ((CycleOver /\ ~CaptureInvoked) => last_input = lastBefore)
    /\ (classified \notin {"none", "Ok"} => (queried = "none" /\ pc = "sleep"))

\* C16 witness: the gate rejected a query that returned less than the
\* recorded timestamp (after an earlier cycle had recorded one).
C16_Witness ==
    /\ CycleOver
    /\ ~CaptureInvoked
    /\ queried = "Ok"
    /\ time < last_input

\* C17: the recorded last-input timestamp starts at 0 and never decreases;
\* every change makes it strictly greater and sets it to the value the OS
\* last-input query returned in the same step of the cycle.
C17_LastInputMonotonic ==
    /\ last_input = 0
    /\ [][last_input' >= last_input]_vars
    /\ [][last_input' # last_input =>
              (/\ last_input' > last_input
               /\ pc = "query"
               /\ queried' = "Ok"
               /\ time' = osTime
               /\ last_input' = time')]_vars

\* C17 witness: a second update, from a non-zero timestamp to a greater one.
C17_Witness ==
    /\ pc = "capture"
    /\ queried = "Ok"
    /\ lastBefore > 0
    /\ last_input > lastBefore

\* C18: the scheduler loop has no terminal state of its own: once spawned it
\* is always at one of the four steps of a cycle and, while the process
\* lives, its next step is enabled.  Handling Quit ends the process at
\* whatever step the scheduler stands; after that no scheduler step is
\* enabled and nothing of the scheduler changes.  Handling Open leaves the
\* process alive and the scheduler where it was.
C18_LoopEndsOnlyWithProcess ==
    /\ [](pc \in {"unspawned", "sleep", "classify", "query", "capture"})
    /\ []((alive /\ pc # "unspawned") => ENABLED SchedulerStep)
    /\ []((alive /\ mainPc = "loop") => ENABLED MenuQuit)
    /\ [][MenuQuit => ~alive']_vars
    /\ [](~alive => ~ENABLED SchedulerStep)
    /\ [][~alive => (~alive' /\ UNCHANGED <<pc, last_input, target, classified,
                                              queried, saved, slept>>)]_vars
    /\ [][(MenuOpen(TRUE) \/ MenuOpen(FALSE)) => (alive' /\ pc' = pc)]_vars

\* C18 witness: Quit was handled while the scheduler stood before a capture.
C18_Witness ==
    /\ uiLast = "quit"
    /\ ~alive
    /\ mainPc = "exit"
    /\ pc = "capture"

\* C19: with a capturable window in the foreground, every capture succeeding
\* and new input arriving during every sleep, successful captures occur
\* infinitely often under fair scheduling of the loop.
C19_CapturesKeepOccurring == []<>(saved = "Ok")

====
